---- MODULE Spec2Model ----
(***************************************************************************)
(* A model of the air pollution bot: the Store (user_session, data_point   *)
(* and subscription tables), the Telegram update handlers of Bot, and the  *)
(* two cron jobs (Bot.Cron, Bot.CronCleanup).                              *)
(*                                                                         *)
(* Time is in minutes since the Unix epoch.  Coordinates are in units of   *)
(* 0.0001 degree; the coordinate values used (0, 5, 9, 30000) are ones on  *)
(* which the float64 test math.Abs(a-b) < 0.0009 and the integer test      *)
(* |a-b| < 9 agree.                                                        *)
(***************************************************************************)
EXTENDS Integers, Sequences, FiniteSets, TLC

\* ------------------------------------------------------------------ bounds
StartNow == 1000
TickStep == 10
MaxTicks == 2
MaxAqi == 2
MaxReadings == 2
MaxSubs == 2

\* ------------------------------------------------------- program constants
\* Store.CacheTime: 10 * time.Minute
CacheTime == 10
\* the duplicate-check epsilon 0.0009 degree, in units of 0.0001 degree
Epsilon == 9
\* ClenupDataPoint's datetime('now', '-12 hour'), in minutes
Retention == 720

\* ------------------------------------------------------------------ inputs
Chats == {1, 2}
\* goroutines the cron scheduler starts for firings of the "@every 30m" entry:
\* it starts one per firing, whether or not an earlier one has returned
RunIds == {1, 2}
\* a firing that finds no earlier run in progress
OneRun == {1}
\* goroutines of Bot.Run that handle a notifyMe callback statement by statement
GoIds == {1, 2}

Abs(x) == IF x < 0 THEN -x ELSE x

\* Location shares the bot can receive: msg.Chat.ID, msg.From.ID,
\* msg.From.LanguageCode, msg.Location.
Messages ==
  { [ChatID |-> 1, UserID |-> 1, LanguageCode |-> "en", Latitude |-> 0,     Longitude |-> 0],
    [ChatID |-> 1, UserID |-> 1, LanguageCode |-> "ru", Latitude |-> 5,     Longitude |-> 30000],
    [ChatID |-> 1, UserID |-> 2, LanguageCode |-> "en", Latitude |-> 9,     Longitude |-> 9],
    [ChatID |-> 2, UserID |-> 2, LanguageCode |-> "ru", Latitude |-> 0,     Longitude |-> 0] }

\* The zero value DataPoint{}: what GetLastPD returns for sql.ErrNoRows and
\* what json.Unmarshal yields for a list element without "dt" and "main".
ZeroDP == [Dt |-> 0, Aqi |-> 0]

\* UserSession{}: the zero value GetSessionByChatID returns with its error.
NoSession == [ChatID |-> 0, UserID |-> 0, LanguageCode |-> "", Latitude |-> 0, Longitude |-> 0]

\* AQIProvider.GetAirPollution(l) at time t: (resp, err).  err is TRUE for a
\* non-nil error; resp.DP is the decoded "list": empty when the body has none,
\* one DataPoint stamped t otherwise, or (malformed) the zero DataPoint.
ErrorResponse == [err |-> TRUE, DP |-> <<>>]
GoodResponses(t) ==
  { [err |-> FALSE, DP |-> l] : l \in {<<>>} \cup { <<[Dt |-> t, Aqi |-> a]>> : a \in 1..MaxAqi } }
MalformedResponse == [err |-> FALSE, DP |-> <<ZeroDP>>]
\* The air at (0,0) has index 1 and the air anywhere else index 2, and the
\* provider reports the index of the place it is asked about (l is anything
\* with a Latitude and a Longitude).
PlaceAqi(l) == IF l.Latitude = 0 /\ l.Longitude = 0 THEN 1 ELSE 2
PlaceResponse(t, l) == [err |-> FALSE, DP |-> <<[Dt |-> t, Aqi |-> PlaceAqi(l)]>>]
\* The provider reporting the index 1 at time t.
SteadyResponse(t) == [err |-> FALSE, DP |-> <<[Dt |-> t, Aqi |-> 1]>>]

VARIABLES
  now,           \* wall clock, minutes since the epoch
  alive,         \* FALSE once a log.Panic in a handler goroutine ended the process
  user_session,  \* table user_session: chatid -> row, or NoSession
  data_point,    \* table data_point: rows in id order
  subscription,  \* table subscription: rows in id order
  cronPc,        \* per Cron run: "idle" or "loop"
  cronSnap,      \* per Cron run: the part of *subs still to range over
  cronI,         \* per Cron run: i, the number of messages sent
  goPc,          \* per goroutine in AddAQISubscription: "idle" or "insert"
  goUs,          \* per goroutine in AddAQISubscription: us, the session it read
  last           \* the handler or step that ran last, and its outcome

storeVars == <<user_session, data_point, subscription>>
cronVars == <<cronPc, cronSnap, cronI>>
goVars == <<goPc, goUs>>
vars == <<now, alive, user_session, data_point, subscription, cronPc, cronSnap, cronI,
          goPc, goUs, last>>

\* -------------------------------------------------------------- the Store

\* An upsert that moves an existing session and keeps its user and language.
UpdateUserSession_Merge(tbl, n) ==
  [tbl EXCEPT ![n.ChatID] =
     IF @ = NoSession THEN n ELSE [@ EXCEPT !.Latitude = n.Latitude, !.Longitude = n.Longitude]]

\* REPLACE INTO user_session ...: chatid is the primary key.
UpdateUserSession(tbl, n) == [tbl EXCEPT ![n.ChatID] = n]

\* The INSERT as INSERT OR IGNORE under a unique (chat_id, created_at).
AddDataPoint_Unique(tbl, chatID, dps) ==
  tbl \o SelectSeq([i \in 1..Len(dps) |-> [chat_id |-> chatID, Dt |-> dps[i].Dt, Aqi |-> dps[i].Aqi]],
                   LAMBDA row : \A k \in DOMAIN tbl :
                                  ~(tbl[k].chat_id = chatID /\ tbl[k].Dt = row.Dt))

\* One INSERT per element of *dps; created_at is time.Unix(dp.Dt, 0).
AddDataPoint(tbl, chatID, dps) ==
  tbl \o [i \in 1..Len(dps) |-> [chat_id |-> chatID, Dt |-> dps[i].Dt, Aqi |-> dps[i].Aqi]]

RowsOf(tbl, chatID) == { i \in DOMAIN tbl : tbl[i].chat_id = chatID }

\* SELECT data ... WHERE chat_id=? ORDER BY created_at DESC LIMIT 1: a row of
\* greatest created_at (which one among equals is not specified), or the zero
\* DataPoint with a nil error when there is no row.
GetLastPD(tbl, chatID) ==
  IF RowsOf(tbl, chatID) = {}
  THEN {ZeroDP}
  ELSE { [Dt |-> tbl[i].Dt, Aqi |-> tbl[i].Aqi] :
           i \in { j \in RowsOf(tbl, chatID) :
                     \A k \in RowsOf(tbl, chatID) : tbl[k].Dt <= tbl[j].Dt } }

\* The Scan error dropped.
GetSessionByChatID_NoError(tbl, chatID) == [err |-> FALSE, us |-> tbl[chatID]]

\* SELECT ... FROM user_session WHERE chatid=?: Scan fails with sql.ErrNoRows
\* when the chat has no row, and the zero UserSession is returned with it.
GetSessionByChatID(tbl, chatID) == [err |-> tbl[chatID] = NoSession, us |-> tbl[chatID]]

IsEnabledOf(row, chatID) == row.ChatID = chatID /\ row.enabled

\* SELECT ... FROM subscription WHERE chat_id=? AND enabled=1
ListAQISubscriptions(tbl, chatID) == SelectSeq(tbl, LAMBDA row : IsEnabledOf(row, chatID))

\* The proximity test as a test on both axes.
IsDuplicate_BothAxes(s, us) ==
  Abs(s.Latitude - us.Latitude) < Epsilon /\ Abs(s.Longitude - us.Longitude) < Epsilon

\* math.Abs(s.Latitude-us.Latitude) < 0.0009 || math.Abs(s.Longitude-us.Longitude) < 0.0009
IsDuplicate(s, us) ==
  Abs(s.Latitude - us.Latitude) < Epsilon \/ Abs(s.Longitude - us.Longitude) < Epsilon

\* INSERT INTO subscription (chat_id, language, longitude, latitude, aqi, enabled, ...)
\* VALUES (us.ChatID, us.LanguageCode, us.Longitude, us.Latitude, dp.GetAQI(), 1, ...);
\* id is AUTOINCREMENT, and no row ever leaves the table (see ClenupAQISubscriptions).
InsertSubscription(tbl, us, dp) ==
  Append(tbl, [ID |-> Len(tbl) + 1, ChatID |-> us.ChatID, LanguageCode |-> us.LanguageCode,
               Latitude |-> us.Latitude, Longitude |-> us.Longitude,
               AirQualityIndex |-> dp.Aqi, enabled |-> TRUE])

\* Store.AddAQISubscription: the set of its possible results, err and the
\* subscription table it leaves.  fault names the store call that fails with a
\* database error (0: none; 1: GetSessionByChatID, 2: ListAQISubscriptions,
\* 3: GetLastPD, 4: the INSERT).
AddAQISubscription(sessions, dps, subs, chatID, fault) ==
  LET got == GetSessionByChatID(sessions, chatID)
      us == got.us
      listed == ListAQISubscriptions(subs, chatID)
  IN
  IF fault = 1 THEN {[err |-> "store_error", subs |-> subs]}
  ELSE IF got.err THEN {[err |-> "no_session", subs |-> subs]}
  ELSE IF fault = 2 THEN {[err |-> "store_error", subs |-> subs]}
  ELSE IF \E i \in DOMAIN listed : IsDuplicate(listed[i], us)
  THEN {[err |-> "duplicate", subs |-> subs]}
  ELSE IF fault \in {3, 4} THEN {[err |-> "store_error", subs |-> subs]}
  ELSE { [err |-> "nil", subs |-> InsertSubscription(subs, us, dp)] : dp \in GetLastPD(dps, chatID) }

\* The UPDATE without its WHERE clause.
DeleteAQISubscriptions_NoWhere(tbl, chatID) ==
  [i \in DOMAIN tbl |-> [tbl[i] EXCEPT !.enabled = FALSE]]

\* UPDATE subscription SET enabled=0 WHERE chat_id=?
DeleteAQISubscriptions(tbl, chatID) ==
  [i \in DOMAIN tbl |-> IF tbl[i].ChatID = chatID THEN [tbl[i] EXCEPT !.enabled = FALSE] ELSE tbl[i]]

\* SELECT ... FROM subscription WHERE enabled=1
ListEnabledSubscriptions(tbl) == SelectSeq(tbl, LAMBDA row : row.enabled)

\* The UPDATE setting enabled=1 along with aqi.
UpdateSubscriptionAQI_Reenable(tbl, subID, aqi) ==
  [i \in DOMAIN tbl |-> IF tbl[i].ID = subID
                         THEN [tbl[i] EXCEPT !.AirQualityIndex = aqi, !.enabled = TRUE]
                         ELSE tbl[i]]

\* UPDATE subscription SET aqi=? WHERE id=?
UpdateSubscriptionAQI(tbl, subID, aqi) ==
  [i \in DOMAIN tbl |-> IF tbl[i].ID = subID THEN [tbl[i] EXCEPT !.AirQualityIndex = aqi] ELSE tbl[i]]

\* A purge that deletes the oldest disabled row only.
ClenupAQISubscriptions_OneRow(tbl) ==
  LET dis == { i \in DOMAIN tbl : ~tbl[i].enabled }
      first == CHOOSE i \in dis : \A j \in dis : i <= j
  IN [err |-> FALSE,
      subs |-> IF dis = {} THEN tbl
               ELSE SubSeq(tbl, 1, first - 1) \o SubSeq(tbl, first + 1, Len(tbl))]

\* Exec("DELETE subscription WHERE enabled=0"): SQLite's DELETE needs FROM, so
\* the statement does not parse; Exec returns the error and no row is deleted.
ClenupAQISubscriptions(tbl) == [err |-> TRUE, subs |-> tbl]

\* The statement as DELETE FROM: rows with created_at <= now - 12 hours go.
ClenupDataPoint_WithFrom(tbl, t) ==
  [err |-> FALSE, dps |-> SelectSeq(tbl, LAMBDA row : row.Dt > t - Retention)]

\* Exec("DELETE data_point WHERE created_at <= datetime('now', '-12 hour')"):
\* again a DELETE without FROM; Exec returns the syntax error and no row is
\* deleted.
ClenupDataPoint(tbl, t) == [err |-> TRUE, dps |-> tbl]

\* A reading exactly CacheTime old taken for stale.
NeedsRefresh_AtTTL(dp, t) == t - dp.Dt >= CacheTime

\* time.Since(time.Unix(dp.Dt, 0)) > bot.store.CacheTime
NeedsRefresh(dp, t) == t - dp.Dt > CacheTime

\* ------------------------------------------------------------ the handlers

\* op, chat, res, fetched, aqi: what ran, for which chat, how it ended, whether
\* the provider was asked (in Cron: answered), and the index shown or stored; rep: the janitor
\* operation ran right after a run of the same operation; sendErr: bot.tApi.Send
\* returned an error; reply: the text of the message the handler sent to the
\* chat, by the name of its constant ("none": no message).
Outcome(op, chat, res, fetched, aqi) ==
  [op |-> op, chat |-> chat, res |-> res, fetched |-> fetched, aqi |-> aqi,
   rep |-> FALSE, sendErr |-> FALSE, reply |-> "none"]

\* handleLocationMessage's message: none when it panicked, safeToRetryErrMsg
\* when the provider failed, the index (aqiText ...) otherwise.
LocationText(res) ==
  IF res = "panic" THEN "none"
  ELSE IF res = "provider_error" THEN "safeToRetryErrMsg"
  ELSE "aqiText"

\* handleCallbackQuery, "notifyMe": notifyMeCnfrmText, replaced by
\* p.Sprintf("Error: %v", err) when AddAQISubscription returned an error.
NotifyMeText(err) == IF err = "nil" THEN "notifyMeCnfrmText" ELSE "Error: " \o err

\* handleCallbackQuery, "cleanup": safeToRetryErrMsg is assigned inside
\* "if err != nil", and notifyMeDelText is assigned after it in every case.
CleanupText(failed) == "notifyMeDelText"

Init ==
  /\ now = StartNow
  /\ alive = TRUE
  /\ user_session = [c \in Chats |-> NoSession]
  /\ data_point = <<>>
  /\ subscription = <<>>
  /\ cronPc = [r \in RunIds |-> "idle"]
  /\ cronSnap = [r \in RunIds |-> <<>>]
  /\ cronI = [r \in RunIds |-> 0]
  /\ goPc = [g \in GoIds |-> "idle"]
  /\ goUs = [g \in GoIds |-> NoSession]
  /\ last = Outcome("init", 0, "nil", FALSE, 0)

\* Bot.handleLocationMessage.  resps is what the provider may answer when it
\* is called; fault names the store call that fails (0: none;
\* 1: UpdateUserSession, 2: the first GetLastPD, 3: AddDataPoint, 4: the second
\* GetLastPD); each of them ends in log.Panic.
HandleLocation(msg, resps, fault) ==
  LET chatID == msg.ChatID
      sessions1 == UpdateUserSession(user_session, msg)
  IN
  /\ alive
  /\ IF fault = 1
     THEN /\ alive' = FALSE
          /\ last' = [Outcome("location", chatID, "panic", FALSE, 0) EXCEPT !.reply = LocationText("panic")]
          /\ UNCHANGED storeVars
     ELSE
       /\ user_session' = sessions1
       /\ IF fault = 2
          THEN /\ alive' = FALSE
               /\ last' = [Outcome("location", chatID, "panic", FALSE, 0) EXCEPT !.reply = LocationText("panic")]
               /\ UNCHANGED <<data_point, subscription>>
          ELSE \E dp \in GetLastPD(data_point, chatID) :
            IF ~NeedsRefresh(dp, now)
            THEN /\ fault = 0
                 /\ last' = [Outcome("location", chatID, "nil", FALSE, dp.Aqi) EXCEPT !.reply = LocationText("nil")]
                 /\ UNCHANGED <<alive, data_point, subscription>>
            ELSE \E resp \in resps :
              IF resp.err
              THEN /\ fault = 0
                   /\ last' = [Outcome("location", chatID, "provider_error", TRUE, 0) EXCEPT !.reply = LocationText("provider_error")]
                   /\ UNCHANGED <<alive, data_point, subscription>>
              ELSE IF fault = 3
              THEN /\ resp.DP # <<>>
                   /\ alive' = FALSE
                   /\ last' = [Outcome("location", chatID, "panic", TRUE, 0) EXCEPT !.reply = LocationText("panic")]
                   /\ UNCHANGED <<data_point, subscription>>
              ELSE
                /\ Len(data_point) + Len(resp.DP) <= MaxReadings
                /\ data_point' = AddDataPoint(data_point, chatID, resp.DP)
                /\ UNCHANGED subscription
                /\ IF fault = 4
                   THEN /\ alive' = FALSE
                        /\ last' = [Outcome("location", chatID, "panic", TRUE, 0) EXCEPT !.reply = LocationText("panic")]
                   ELSE /\ \E dp2 \in GetLastPD(data_point', chatID) :
                             last' = [Outcome("location", chatID, "nil", TRUE, dp2.Aqi) EXCEPT !.reply = LocationText("nil")]
                        /\ UNCHANGED alive
  /\ UNCHANGED <<goVars, now, cronVars>>

\* Bot.handleCallbackQuery, query.Data = "notifyMe".  fault -1: answering the
\* callback (bot.tApi.Request) fails, which ends in log.Panic; the others are
\* AddAQISubscription's.
HandleNotifyMe(chatID, fault) ==
  /\ alive
  /\ IF fault = -1
     THEN /\ alive' = FALSE
          /\ last' = Outcome("notifyMe", chatID, "panic", FALSE, 0)
          /\ UNCHANGED subscription
     ELSE \E r \in AddAQISubscription(user_session, data_point, subscription, chatID, fault) :
          /\ Len(r.subs) <= MaxSubs
          /\ subscription' = r.subs
          /\ last' = [Outcome("notifyMe", chatID, r.err, FALSE,
                              IF r.err = "nil" THEN r.subs[Len(r.subs)].AirQualityIndex ELSE 0)
                       EXCEPT !.reply = NotifyMeText(r.err)]
          /\ UNCHANGED alive
  /\ UNCHANGED <<goVars, now, user_session, data_point, cronVars>>

\* AddAQISubscription in goroutine g, up to the end of the duplicate check:
\* GetSessionByChatID, ListAQISubscriptions and the loop over *subs.
SubscribeCheck(g, chatID) ==
  LET got == GetSessionByChatID(user_session, chatID)
      listed == ListAQISubscriptions(subscription, chatID)
  IN
  /\ alive
  /\ goPc[g] = "idle"
  /\ IF got.err
     THEN /\ last' = Outcome("notifyMe", chatID, "no_session", FALSE, 0)
          /\ UNCHANGED goVars
     ELSE IF \E i \in DOMAIN listed : IsDuplicate(listed[i], got.us)
     THEN /\ last' = Outcome("notifyMe", chatID, "duplicate", FALSE, 0)
          /\ UNCHANGED goVars
     ELSE /\ goPc' = [goPc EXCEPT ![g] = "insert"]
          /\ goUs' = [goUs EXCEPT ![g] = got.us]
          /\ last' = Outcome("notifyMe_checked", chatID, "nil", FALSE, 0)
  /\ UNCHANGED <<now, alive, storeVars, cronVars>>

\* The rest of AddAQISubscription in goroutine g: GetLastPD and the INSERT of
\* the session read before the check.
SubscribeInsert(g) ==
  /\ alive
  /\ goPc[g] = "insert"
  /\ Len(subscription) < MaxSubs
  /\ \E dp \in GetLastPD(data_point, goUs[g].ChatID) :
       /\ subscription' = InsertSubscription(subscription, goUs[g], dp)
       /\ last' = Outcome("notifyMe", goUs[g].ChatID, "nil", FALSE, dp.Aqi)
  /\ goPc' = [goPc EXCEPT ![g] = "idle"]
  /\ goUs' = [goUs EXCEPT ![g] = NoSession]
  /\ UNCHANGED <<now, alive, user_session, data_point, cronVars>>

\* handleLocationMessage in goroutine g, up to the staleness test:
\* UpdateUserSession, GetLastPD and time.Since(...) > CacheTime.  A fresh
\* reading is answered at once; otherwise the goroutine goes on to the provider.
ShareCheck(g, msg) ==
  /\ alive
  /\ goPc[g] = "idle"
  /\ user_session' = UpdateUserSession(user_session, msg)
  /\ \E dp \in GetLastPD(data_point, msg.ChatID) :
       IF ~NeedsRefresh(dp, now)
       THEN /\ last' = [Outcome("location", msg.ChatID, "nil", FALSE, dp.Aqi) EXCEPT !.reply = LocationText("nil")]
            /\ UNCHANGED goVars
       ELSE /\ goPc' = [goPc EXCEPT ![g] = "fetch"]
            /\ goUs' = [goUs EXCEPT ![g] = msg]
            /\ last' = Outcome("location_stale", msg.ChatID, "nil", FALSE, 0)
  /\ UNCHANGED <<now, alive, data_point, subscription, cronVars>>

\* Goroutine g past the staleness test: GetAirPollution(location) and, when it
\* answered, AddDataPoint(chatID, &resp.DP).  The store is not read again
\* between the test and the INSERT.
ShareFetch(g, resp) ==
  /\ alive
  /\ goPc[g] = "fetch"
  /\ IF resp.err
     THEN /\ goPc' = [goPc EXCEPT ![g] = "idle"]
          /\ goUs' = [goUs EXCEPT ![g] = NoSession]
          /\ last' = [Outcome("location", goUs[g].ChatID, "provider_error", TRUE, 0) EXCEPT !.reply = LocationText("provider_error")]
          /\ UNCHANGED data_point
     ELSE /\ Len(data_point) + Len(resp.DP) <= MaxReadings
          /\ data_point' = AddDataPoint(data_point, goUs[g].ChatID, resp.DP)
          /\ goPc' = [goPc EXCEPT ![g] = "reread"]
          /\ UNCHANGED goUs
          /\ last' = Outcome("location_added", goUs[g].ChatID, "nil", TRUE, 0)
  /\ UNCHANGED <<now, alive, user_session, subscription, cronVars>>

\* The end of handleLocationMessage in goroutine g: the second GetLastPD and
\* the message with the index.
ShareReread(g) ==
  /\ alive
  /\ goPc[g] = "reread"
  /\ \E dp \in GetLastPD(data_point, goUs[g].ChatID) :
       last' = [Outcome("location", goUs[g].ChatID, "nil", TRUE, dp.Aqi) EXCEPT !.reply = LocationText("nil")]
  /\ goPc' = [goPc EXCEPT ![g] = "idle"]
  /\ goUs' = [goUs EXCEPT ![g] = NoSession]
  /\ UNCHANGED <<now, alive, storeVars, cronVars>>

\* Bot.handleCallbackQuery, query.Data = "cleanup".  fault -1 as above; fault 1:
\* DeleteAQISubscriptions fails.  tgMsg.Text is set to notifyMeDelText after the
\* error branch, whatever err was.
HandleCleanup(chatID, fault) ==
  /\ alive
  /\ IF fault = -1
     THEN /\ alive' = FALSE
          /\ last' = Outcome("cleanup", chatID, "panic", FALSE, 0)
          /\ UNCHANGED subscription
     ELSE /\ subscription' = IF fault = 1 THEN subscription
                                          ELSE DeleteAQISubscriptions(subscription, chatID)
          /\ last' = [Outcome("cleanup", chatID, IF fault = 1 THEN "store_error" ELSE "nil",
                              FALSE, 0)
                       EXCEPT !.reply = CleanupText(fault = 1)]
          /\ UNCHANGED alive
  /\ UNCHANGED <<goVars, now, user_session, data_point, cronVars>>

\* The comparison of headMsg the other way round.
Direction_Swapped(new, old) == IF new > old THEN "improved" ELSE "degraded"

\* A provider error leaving the loop instead of continuing it.
RestOfRange_Break(snap, res) == IF res = "provider_error" THEN <<>> ELSE Tail(snap)

\* An item that met a store error tried again.
RestOfRange_Retry(snap, res) == IF res = "store_error" THEN snap ELSE Tail(snap)

\* A store error answered with "return" instead of "continue".
RestOfRange_Return(snap, res) == IF res = "store_error" THEN <<>> ELSE Tail(snap)

\* headMsg: aqiGetsWorseMsg unless dp.GetAQI() < s.AirQualityIndex.
Direction(new, old) == IF new < old THEN "improved" ELSE "degraded"

\* "continue", and the end of the loop body: range moves on to the next
\* element of *subs, whatever happened to this one.
RestOfRange(snap, res) == Tail(snap)

\* A failed Send undoing the update that preceded it.
AfterSend_Rollback(before, after, sendErr) == IF sendErr THEN before ELSE after

\* Bot.Send: an error of bot.tApi.Send is logged, and that is all; the tables
\* stay as they were when Send was called.
AfterSend(before, after, sendErr) == after

Item(s, res, new) == [sub |-> s.ID, chat |-> s.ChatID, res |-> res, old |-> s.AirQualityIndex, new |-> new]

\* Bot.Cron up to the loop: the snapshot.  fault 1: ListEnabledSubscriptions fails.
CronStart(r, fault) ==
  /\ alive
  /\ cronPc[r] = "idle"
  /\ IF fault = 1
     THEN /\ last' = Outcome("cron_start", 0, "store_error", FALSE, 0)
          /\ UNCHANGED cronVars
     ELSE /\ cronSnap' = [cronSnap EXCEPT ![r] = ListEnabledSubscriptions(subscription)]
          /\ cronI' = [cronI EXCEPT ![r] = 0]
          /\ cronPc' = [cronPc EXCEPT ![r] = "loop"]
          /\ last' = Outcome("cron_start", 0, "nil", FALSE, 0)
  /\ UNCHANGED <<goVars, now, alive, storeVars>>

\* What one iteration of Cron's loop does to s: the tables it leaves, the
\* change of i, and what it logged or sent.  fault 1: AddDataPoint fails,
\* 2: GetLastPD fails, 3: UpdateSubscriptionAQI fails, 4: Send fails.
CronItem(dps, subs, s, resp, fault) ==
  LET dps1 == AddDataPoint(dps, s.ChatID, resp.DP) IN
  IF resp.err
  THEN {[dps |-> dps, subs |-> subs, sent |-> 0, sendErr |-> FALSE, item |-> Item(s, "provider_error", 0)]}
  ELSE IF fault = 1 /\ resp.DP # <<>>
  THEN {[dps |-> dps, subs |-> subs, sent |-> 0, sendErr |-> FALSE, item |-> Item(s, "store_error", 0)]}
  ELSE IF fault = 2
  THEN {[dps |-> dps1, subs |-> subs, sent |-> 0, sendErr |-> FALSE, item |-> Item(s, "store_error", 0)]}
  ELSE { IF dp.Aqi # s.AirQualityIndex
         THEN IF fault = 3
              THEN [dps |-> dps1, subs |-> subs, sent |-> 0, sendErr |-> FALSE,
                    item |-> Item(s, "store_error", dp.Aqi)]
              ELSE [dps |-> dps1,
                    subs |-> AfterSend(subs, UpdateSubscriptionAQI(subs, s.ID, dp.Aqi), fault = 4),
                    sent |-> 1, sendErr |-> (fault = 4),
                    item |-> Item(s, Direction(dp.Aqi, s.AirQualityIndex), dp.Aqi)]
         ELSE [dps |-> dps1, subs |-> subs, sent |-> 0, sendErr |-> FALSE, item |-> Item(s, "same", dp.Aqi)]
         : dp \in GetLastPD(dps1, s.ChatID) }

\* One iteration of "for _, s := range *subs".
CronStep(r, resp, fault) ==
  /\ alive
  /\ cronPc[r] = "loop"
  /\ cronSnap[r] # <<>>
  /\ \E o \in CronItem(data_point, subscription, Head(cronSnap[r]), resp, fault) :
       /\ Len(o.dps) <= MaxReadings
       /\ data_point' = o.dps
       /\ subscription' = o.subs
       /\ cronI' = [cronI EXCEPT ![r] = @ + o.sent]
       /\ last' = [Outcome("cron", o.item.chat, o.item.res, ~resp.err, o.item.new)
                    EXCEPT !.sendErr = o.sendErr]
       /\ cronSnap' = [cronSnap EXCEPT ![r] = RestOfRange(@, o.item.res)]
  /\ UNCHANGED <<goVars, now, alive, user_session, cronPc>>

\* The loop is over: log.Printf("Sent %d messages", i); Cron returns and its
\* locals are gone.
CronEnd(r) ==
  /\ alive
  /\ cronPc[r] = "loop"
  /\ cronSnap[r] = <<>>
  /\ cronPc' = [cronPc EXCEPT ![r] = "idle"]
  /\ cronI' = [cronI EXCEPT ![r] = 0]
  /\ last' = Outcome("cron_end", 0, "nil", FALSE, cronI[r])
  /\ UNCHANGED <<goVars, now, alive, storeVars, cronSnap>>

\* Bot.CronCleanup
CronCleanup ==
  /\ alive
  /\ LET r == ClenupAQISubscriptions(subscription) IN
       /\ subscription' = r.subs
       /\ last' = [Outcome("cron_cleanup", 0, IF r.err THEN "store_error" ELSE "nil", FALSE, 0)
                    EXCEPT !.rep = (last.op = "cron_cleanup")]
  /\ UNCHANGED <<goVars, now, alive, user_session, data_point, cronVars>>

\* A call of Store.ClenupDataPoint.  Nothing in the program makes this call:
\* CronCleanup runs ClenupAQISubscriptions only.
ClenupDataPointCall ==
  /\ alive
  /\ LET r == ClenupDataPoint(data_point, now) IN
       /\ data_point' = r.dps
       /\ last' = [Outcome("clenup_data_point", 0, IF r.err THEN "store_error" ELSE "nil", FALSE, 0)
                    EXCEPT !.rep = (last.op = "clenup_data_point")]
  /\ UNCHANGED <<goVars, now, alive, user_session, subscription, cronVars>>

\* The instants the clock is read at over the retention window: an hour short
\* of it and an hour past it.
Instants == {StartNow + Retention - 60, StartNow + Retention + 60}

\* Time passes until instant t.
Elapse(t) ==
  /\ alive
  /\ t > now
  /\ now' = t
  /\ last' = Outcome("tick", 0, "nil", FALSE, 0)
  /\ UNCHANGED <<goVars, alive, storeVars, cronVars>>

Tick ==
  /\ alive
  /\ now < StartNow + MaxTicks * TickStep
  /\ now' = now + TickStep
  /\ last' = Outcome("tick", 0, "nil", FALSE, 0)
  /\ UNCHANGED <<goVars, alive, storeVars, cronVars>>

\* Inbound location shares msgs, answered by the provider with resps, under
\* the store faults faults (a fault is an input only of a run that reaches the
\* failing call).
Shares(msgs, resps, faults) ==
  \E msg \in msgs, fault \in {0} \cup faults : HandleLocation(msg, resps, fault)

NotifyMes(faults) == \E c \in Chats, fault \in faults : HandleNotifyMe(c, fault)

Cleanups(faults) == \E c \in Chats, fault \in faults : HandleCleanup(c, fault)

\* A run of Bot.Cron, interleaved with whatever else runs.
CronRuns(runs, resps, faults) ==
  \/ \E r \in runs, fault \in {0} \cup (faults \cap {1}) : CronStart(r, fault)
  \/ \E r \in runs, resp \in resps, fault \in {0} \cup faults : CronStep(r, resp, fault)
  \/ \E r \in runs : CronEnd(r)

AllResponses(t) == {ErrorResponse, MalformedResponse} \cup GoodResponses(t)

\* Everything the process does.
Next ==
  \/ Shares(Messages, AllResponses(now), 1..4)
  \/ NotifyMes(-1..4)
  \/ \E g \in GoIds, c \in Chats : SubscribeCheck(g, c)
  \/ \E g \in GoIds : SubscribeInsert(g)
  \/ Cleanups(-1..1)
  \/ CronRuns(RunIds, AllResponses(now), 1..4)
  \/ CronCleanup
  \/ Tick

Spec == Init /\ [][Next]_vars

\* The handlers and the janitor, with every store fault that is reported as an
\* error and a provider that fails or reports one index, within one tick of
\* the clock and with no Cron run in progress.
NextStore ==
  \/ Shares(Messages, {ErrorResponse, SteadyResponse(now)}, {})
  \/ NotifyMes(0..4)
  \/ Cleanups(0..1)
  \/ CronCleanup

SpecStore == Init /\ [][NextStore]_vars

\* Location shares as the clock advances.
NextShare ==
  \/ Shares(Messages, AllResponses(now), 1..4)
  \/ Tick

SpecShare == Init /\ [][NextShare]_vars

\* Cron runs, with every failure an iteration can meet, interleaved with
\* fault-free location shares and subscribe
\* requests of chats at one location, within one tick of the clock.
CronMessages == { m \in Messages : m.Latitude = 0 /\ m.Longitude = 0 }

NextCron ==
  \/ Shares(CronMessages, {ErrorResponse} \cup GoodResponses(now), {})
  \/ NotifyMes({0})
  \/ CronRuns(OneRun, {ErrorResponse} \cup GoodResponses(now), 1..4)

SpecCron == Init /\ [][NextCron]_vars

\* The two janitor operations over the retention window, beside fault-free
\* handlers and a provider whose answer does not vary.
NextJanitor ==
  \/ Shares(CronMessages, {SteadyResponse(now)}, {})
  \/ NotifyMes({0})
  \/ Cleanups({0})
  \/ CronCleanup
  \/ ClenupDataPointCall
  \/ \E t \in Instants : Elapse(t)

SpecJanitor == Init /\ [][NextJanitor]_vars

\* c.AddFunc("@every 12h", bot.CronCleanup) with c.Start(): while the process
\* lives the scheduler keeps firing CronCleanup.
SpecJanitorFair == SpecJanitor /\ WF_vars(CronCleanup)

\* "go bot.handleUpdate(update)": notifyMe callbacks handled by goroutines
\* whose store calls interleave, beside location shares and unsubscribes.
NextRace ==
  \/ Shares(Messages, {SteadyResponse(now)}, {})
  \/ \E g \in GoIds, c \in Chats : SubscribeCheck(g, c)
  \/ \E g \in GoIds : SubscribeInsert(g)
  \/ Cleanups({0})

SpecRace == Init /\ [][NextRace]_vars

\* "go bot.handleUpdate(update)": location shares handled by goroutines whose
\* store and provider calls interleave.
NextShareRace ==
  \/ \E g \in GoIds, msg \in Messages : ShareCheck(g, msg)
  \/ \E g \in GoIds, resp \in {ErrorResponse, SteadyResponse(now)} : ShareFetch(g, resp)
  \/ \E g \in GoIds : ShareReread(g)

SpecShareRace == Init /\ [][NextShareRace]_vars

\* Everything that writes the subscription table, interleaved: subscribes,
\* unsubscribes, a run of Cron and the janitor.
NextLife ==
  \/ Shares(CronMessages, {SteadyResponse(now)}, {})
  \/ NotifyMes({0})
  \/ Cleanups({0})
  \/ CronRuns(OneRun, GoodResponses(now), {})
  \/ CronCleanup

SpecLife == Init /\ [][NextLife]_vars

\* Shares, subscribes and a run of Cron while the provider answers each call
\* with the index of the place asked about.
NextPlace ==
  \/ \E msg \in Messages : HandleLocation(msg, {PlaceResponse(now, msg)}, 0)
  \/ NotifyMes({0})
  \/ \E r \in OneRun : CronStart(r, 0)
  \/ \E r \in OneRun :
       cronSnap[r] # <<>> /\ CronStep(r, PlaceResponse(now, Head(cronSnap[r])), 0)
  \/ \E r \in OneRun : CronEnd(r)
  \/ Tick

SpecPlace == Init /\ [][NextPlace]_vars

\* Firings of the "@every 30m" entry while subscriptions exist, the provider
\* reporting any index.
NextOverlap ==
  \/ Shares(CronMessages, {SteadyResponse(now)}, {})
  \/ NotifyMes({0})
  \/ CronRuns(RunIds, GoodResponses(now), {})

SpecOverlap == Init /\ [][NextOverlap]_vars
\* ------------------------------------------------------------------ claims

HasReading(tbl, chatID) == RowsOf(tbl, chatID) # {}

\* The timestamp of the chat's most recent reading.
LatestDt(tbl, chatID) ==
  CHOOSE d \in { tbl[i].Dt : i \in RowsOf(tbl, chatID) } :
    \A i \in RowsOf(tbl, chatID) : tbl[i].Dt <= d

\* The indexes a most recent reading of the chat has.
LatestAqis(tbl, chatID) ==
  { tbl[i].Aqi : i \in { j \in RowsOf(tbl, chatID) : tbl[j].Dt = LatestDt(tbl, chatID) } }

\* Some enabled subscription of the chat is within epsilon of loc on an axis.
HasNearEnabled(tbl, chatID, loc) ==
  \E i \in DOMAIN tbl :
    /\ tbl[i].ChatID = chatID
    /\ tbl[i].enabled
    /\ \/ Abs(tbl[i].Latitude - loc.Latitude) < Epsilon
       \/ Abs(tbl[i].Longitude - loc.Longitude) < Epsilon

HasSession(chatID) == user_session[chatID] # NoSession

\* C1: a location share that gets as far as the staleness check calls the
\* provider if and only if the chat has no stored reading or its most recent
\* reading is more than CacheTime old.
C1_StalenessPolicy ==
  [][ (last'.op = "location" /\ (last'.res # "panic" \/ last'.fetched)) =>
        (last'.fetched <=>
           (\/ ~HasReading(data_point, last'.chat)
            \/ now - LatestDt(data_point, last'.chat) > CacheTime)) ]_vars

\* A share answered from a reading exactly CacheTime old, with no fetch.
C1_Witness ==
  /\ last.op = "location" /\ last.res = "nil" /\ ~last.fetched
  /\ HasReading(data_point, last.chat)
  /\ now - LatestDt(data_point, last.chat) = CacheTime

\* C2: unless a store call fails, subscribe is rejected as a duplicate exactly
\* when an enabled subscription of the same chat is within epsilon of the
\* session's location on the latitude or on the longitude; a rejected call
\* creates nothing, and with no such subscription the call is accepted and adds
\* a row.
C2_DedupRule ==
  [][ last'.op = "notifyMe" =>
        LET c == last'.chat
            near == HasSession(c) /\ HasNearEnabled(subscription, c, user_session[c])
        IN /\ last'.res = "duplicate" => near /\ subscription' = subscription
           /\ near => last'.res \in {"duplicate", "store_error", "panic"}
           /\ (HasSession(c) /\ ~near /\ last'.res \notin {"store_error", "panic"})
                => last'.res = "nil" /\ Len(subscription') = Len(subscription) + 1 ]_vars

\* A duplicate rejected on the latitude alone, the longitudes being far apart.
C2_Witness ==
  /\ last.op = "notifyMe" /\ last.res = "duplicate"
  /\ \E i \in DOMAIN subscription :
       /\ subscription[i].ChatID = last.chat /\ subscription[i].enabled
       /\ Abs(subscription[i].Latitude - user_session[last.chat].Latitude) < Epsilon
       /\ Abs(subscription[i].Longitude - user_session[last.chat].Longitude) >= Epsilon
  /\ \E i \in DOMAIN subscription : subscription[i].ChatID # last.chat

\* C3: an iteration of Cron's loop that fails nowhere sends a message (and
\* counts it) if and only if the new index differs from the subscription's
\* stored index; the message says improved exactly when new < old and degraded
\* exactly when new > old; the stored index becomes the new one, and with
\* new = old the subscription table is left as it was.
C3_ChangeDetection ==
  [][ (last'.op = "cron" /\ last'.res \in {"same", "improved", "degraded"}) =>
        \A r \in RunIds : cronSnap'[r] # cronSnap[r] =>
          LET s == Head(cronSnap[r])
              old == subscription[s.ID].AirQualityIndex
              new == last'.aqi
          IN /\ new \in (IF HasReading(data_point', s.ChatID)
                        THEN LatestAqis(data_point', s.ChatID) ELSE {ZeroDP.Aqi})
             /\ (cronI'[r] = cronI[r] + 1) <=> new # old
             /\ cronI'[r] \in {cronI[r], cronI[r] + 1}
             /\ last'.res = "improved" <=> new < old
             /\ last'.res = "degraded" <=> new > old
             /\ last'.res = "same" <=> new = old
             /\ new = old => subscription' = subscription
             /\ subscription'[s.ID].AirQualityIndex = new ]_vars

\* An iteration that found a lower index.
C3_Witness ==
  /\ last.op = "cron" /\ last.res = "improved"
  /\ \E i \in DOMAIN subscription : subscription[i].AirQualityIndex = last.aqi /\ last.aqi >= 1

\* C4: an iteration of Cron's loop whose provider call fails appends no
\* reading, leaves the subscription table as it was, sends nothing and counts
\* nothing, and the run goes on with the rest of the snapshot; in every
\* iteration the count of sent messages grows by one exactly when a message
\* is sent.
C4_ProviderFailureIsolated ==
  [][ last'.op = "cron" =>
        \A r \in RunIds : cronSnap'[r] # cronSnap[r] =>
          /\ cronPc'[r] = "loop"
          /\ cronSnap'[r] = Tail(cronSnap[r])
          /\ cronI'[r] = cronI[r] + (IF last'.res \in {"improved", "degraded"} THEN 1 ELSE 0)
          /\ last'.res = "provider_error" =>
                /\ ~last'.fetched
                /\ data_point' = data_point
                /\ subscription' = subscription
                /\ cronI'[r] = cronI[r] ]_vars

\* A provider failure on a subscription that is not the last of the snapshot,
\* after which the run has a subscription left to process.
C4_Witness ==
  /\ last.op = "cron" /\ last.res = "provider_error"
  /\ \E r \in RunIds : cronPc[r] = "loop" /\ cronSnap[r] # <<>>

\* C5: subscribe for a chat with no session fails and leaves the subscription
\* table as it was.
C5_NoSession ==
  [][ (last'.op = "notifyMe" /\ last'.res # "panic" /\ ~HasSession(last'.chat)) =>
        /\ last'.res \in {"no_session", "store_error"}
        /\ subscription' = subscription ]_vars

\* A subscribe refused for want of a session.
C5_Witness ==
  /\ last.op = "notifyMe" /\ last.res = "no_session"
  /\ ~HasSession(last.chat)

\* C6: subscribe for a chat that has a session, passes the duplicate test and
\* has no stored reading fails and creates no subscription.
C6_NoReadingFails ==
  [][ (/\ last'.op = "notifyMe"
       /\ HasSession(last'.chat)
       /\ ~HasNearEnabled(subscription, last'.chat, user_session[last'.chat])
       /\ ~HasReading(data_point, last'.chat)) =>
        /\ last'.res # "nil"
        /\ subscription' = subscription ]_vars

\* C7: what the most-recent-reading query returns for a chat with no reading
\* differs from what it returns for a chat whose most recent reading has the
\* epoch as its timestamp.
C7_AbsentIsDistinct ==
  \A c1, c2 \in Chats :
    (/\ ~HasReading(data_point, c1)
     /\ HasReading(data_point, c2)
     /\ LatestDt(data_point, c2) = 0) =>
       GetLastPD(data_point, c1) \cap GetLastPD(data_point, c2) = {}

\* C8: a successful subscribe appends one row, enabled, with the session's
\* chat, language and location and with the index of the chat's most recent
\* reading; the rows there were, the sessions and the readings stay as they
\* were.
C8_SubscribeEffect ==
  [][ (last'.op = "notifyMe" /\ last'.res = "nil") =>
        LET c == last'.chat
            us == user_session[c]
            row == subscription'[Len(subscription')]
        IN /\ Len(subscription') = Len(subscription) + 1
           /\ SubSeq(subscription', 1, Len(subscription)) = subscription
           /\ row.enabled
           /\ row.ChatID = c
           /\ row.LanguageCode = us.LanguageCode
           /\ row.Latitude = us.Latitude /\ row.Longitude = us.Longitude
           /\ HasReading(data_point, c)
           /\ row.AirQualityIndex \in LatestAqis(data_point, c)
           /\ UNCHANGED <<user_session, data_point>> ]_vars

\* C9: unsubscribeAll that returns no error leaves no subscription of the chat
\* enabled, deletes no row, changes nothing else of the chat's rows, and
\* leaves the other chats' rows, the sessions and the readings as they were.
C9_UnsubscribeAll ==
  [][ (last'.op = "cleanup" /\ last'.res = "nil") =>
        /\ DOMAIN subscription' = DOMAIN subscription
        /\ \A i \in DOMAIN subscription :
             IF subscription[i].ChatID = last'.chat
             THEN subscription'[i] = [subscription[i] EXCEPT !.enabled = FALSE]
             ELSE subscription'[i] = subscription[i]
        /\ UNCHANGED <<user_session, data_point>> ]_vars

\* An unsubscribeAll that disabled a chat's subscription beside an enabled
\* subscription of another chat.
C9_Witness ==
  /\ last.op = "cleanup" /\ last.res = "nil"
  /\ \E i \in DOMAIN subscription : subscription[i].ChatID = last.chat /\ ~subscription[i].enabled
  /\ \E i \in DOMAIN subscription : subscription[i].ChatID # last.chat /\ subscription[i].enabled

\* C10: once the janitor has run, no disabled subscription remains.
C10_PurgeDisabled ==
  last.op = "cron_cleanup" => \A i \in DOMAIN subscription : subscription[i].enabled

JanitorOps == {"cron_cleanup", "clenup_data_point"}

\* C11: purgeStaleReadings leaves exactly the readings that are not older than
\* the retention window: every reading older than Retention is deleted and
\* every younger one is kept.
C11_PurgeStale ==
  [][ last'.op = "clenup_data_point" =>
        data_point' = SelectSeq(data_point, LAMBDA row : now - row.Dt <= Retention) ]_vars

C13_JanitorIdempotent ==
  [][ (last'.op \in JanitorOps /\ last'.rep) => UNCHANGED storeVars ]_vars

\* purgeDisabledSubscriptions run twice in a row on a table where two disabled
\* rows qualified.
C13_Witness ==
  /\ last.op = "cron_cleanup" /\ last.rep
  /\ Cardinality({ i \in DOMAIN subscription : ~subscription[i].enabled }) >= 2

\* C14: the sessions are one row per chat; a location share that gets past
\* UpdateUserSession leaves the chat's session equal to the shared message in
\* every attribute, and the sessions of the other chats as they were; a share
\* that fails there, and every step that is not a share, leaves all sessions
\* as they were.
C14_FullReplace ==
  [][ /\ DOMAIN user_session' = Chats
      /\ last'.op = "location" =>
           \A msg \in { m \in Messages : m.ChatID = last'.chat } :
             /\ (\E fault \in (IF last'.res = "panic" THEN {2, 3, 4} ELSE {0}) :
                    HandleLocation(msg, AllResponses(now), fault)) =>
                  /\ user_session'[msg.ChatID] = msg
                  /\ \A c \in Chats \ {msg.ChatID} : user_session'[c] = user_session[c]
             /\ (last'.res = "panic" /\ HandleLocation(msg, AllResponses(now), 1)) =>
                  user_session' = user_session
      /\ last'.op # "location" => user_session' = user_session ]_vars

\* A share of user 2 in chat 1 answered from the reading an earlier share
\* stored: the session it wrote replaced the earlier one.
C14_Witness ==
  /\ last.op = "location" /\ last.res = "nil" /\ ~last.fetched
  /\ last.chat = 1
  /\ user_session[1] = [ChatID |-> 1, UserID |-> 2, LanguageCode |-> "en", Latitude |-> 9, Longitude |-> 9]

\* C15: in every reachable state the stored index of every subscription is an
\* index that was observed: it is at least 1 and it is the index of a stored
\* reading of the subscription's chat.
C15_ObservedIndex ==
  \A i \in DOMAIN subscription :
    /\ subscription[i].AirQualityIndex >= 1
    /\ \E j \in RowsOf(data_point, subscription[i].ChatID) :
         data_point[j].Aqi = subscription[i].AirQualityIndex

\* C16: an iteration of Cron's loop whose Send fails keeps the update of the
\* subscription's stored index to the new index, has called Send once (the
\* count grows by one and the iteration is over), and the run goes on with
\* the rest of the snapshot.
C16_DeliveryFailureKept ==
  [][ (last'.op = "cron" /\ last'.sendErr) =>
        \A r \in RunIds : cronSnap'[r] # cronSnap[r] =>
          LET s == Head(cronSnap[r]) IN
          /\ last'.aqi # s.AirQualityIndex
          /\ subscription' = UpdateSubscriptionAQI(subscription, s.ID, last'.aqi)
          /\ subscription'[s.ID].AirQualityIndex = last'.aqi
          /\ cronI'[r] = cronI[r] + 1
          /\ cronSnap'[r] = Tail(cronSnap[r])
          /\ cronPc'[r] = "loop" ]_vars

\* A notification that could not be delivered, its update in the table, and a
\* subscription left for the run to process.
C16_Witness ==
  /\ last.op = "cron" /\ last.sendErr
  /\ \E i \in DOMAIN subscription :
       subscription[i].ChatID = last.chat /\ subscription[i].AirQualityIndex = last.aqi
  /\ \E r \in RunIds : cronPc[r] = "loop" /\ cronSnap[r] # <<>>

\* C17: in every reachable state no two enabled subscriptions of the same chat
\* are within epsilon of each other on the latitude or on the longitude.
C17_DedupInvariant ==
  \A i, j \in DOMAIN subscription :
    (/\ i # j
     /\ subscription[i].ChatID = subscription[j].ChatID
     /\ subscription[i].enabled /\ subscription[j].enabled) =>
       /\ Abs(subscription[i].Latitude - subscription[j].Latitude) >= Epsilon
       /\ Abs(subscription[i].Longitude - subscription[j].Longitude) >= Epsilon

\* C18: a handler that hit a provider or store failure did not send a success
\* text; an unsubscribeAll that failed with a store error sent the retry
\* notice, and so did a location share whose provider call failed.
C18_FailureNotice ==
  /\ (last.op \in {"location", "notifyMe", "cleanup"} /\ last.res \in {"provider_error", "store_error"})
       => last.reply \notin {"aqiText", "notifyMeCnfrmText", "notifyMeDelText"}
  /\ (last.op = "cleanup" /\ last.res = "store_error") => last.reply = "safeToRetryErrMsg"
  /\ (last.op = "location" /\ last.res = "provider_error") => last.reply = "safeToRetryErrMsg"

\* C19: a run of Cron takes as its snapshot the subscriptions enabled when it
\* starts, in id order; every iteration processes the first subscription left
\* in the snapshot and removes exactly that one; the run ends only when none
\* is left; and no other step, the creation of a subscription included,
\* changes the snapshot of a run.
C19_OneSnapshot ==
  [][ /\ (last'.op = "cron_start" /\ last'.res = "nil") =>
           \E r \in RunIds :
             /\ cronPc[r] = "idle" /\ cronPc'[r] = "loop"
             /\ cronSnap'[r] = SelectSeq(subscription, LAMBDA row : row.enabled)
             /\ \A k \in 1..(Len(cronSnap'[r]) - 1) : cronSnap'[r][k].ID < cronSnap'[r][k + 1].ID
      /\ last'.op = "cron" =>
           \E r \in RunIds :
             /\ cronPc[r] = "loop" /\ cronSnap[r] # <<>>
             /\ last'.chat = Head(cronSnap[r]).ChatID
             /\ cronSnap'[r] = Tail(cronSnap[r])
             /\ \A q \in RunIds \ {r} : cronSnap'[q] = cronSnap[q]
      /\ last'.op = "cron_end" =>
           \E r \in RunIds : cronPc[r] = "loop" /\ cronSnap[r] = <<>> /\ cronPc'[r] = "idle"
      /\ last'.op \notin {"cron_start", "cron", "cron_end"} => UNCHANGED cronVars ]_vars

\* A run that has processed the last subscription of its snapshot while a
\* subscription of another chat, created after the snapshot was taken, is
\* enabled.
C19_Witness ==
  /\ last.op = "cron"
  /\ \E r \in RunIds : cronPc[r] = "loop" /\ cronSnap[r] = <<>>
  /\ \E i \in DOMAIN subscription :
       /\ subscription[i].enabled
       /\ subscription[i].ChatID # last.chat
       /\ \E j \in DOMAIN subscription : subscription[j].ChatID = last.chat
       /\ \A j \in DOMAIN subscription : subscription[j].ChatID = last.chat => j < i

\* C20: an iteration of Cron's loop in which a store call fails sends nothing,
\* counts nothing and leaves the subscription table as it was, and the run
\* goes on with the rest of the snapshot; a run whose snapshot query fails
\* ends at once with the store and every run as they were.
C20_StoreFailureSkipsItem ==
  [][ /\ (last'.op = "cron" /\ last'.res = "store_error") =>
           /\ ~last'.sendErr
           /\ subscription' = subscription
           /\ UNCHANGED <<user_session, cronI>>
           /\ \E r \in RunIds :
                /\ cronSnap[r] # <<>>
                /\ cronSnap'[r] = Tail(cronSnap[r])
                /\ cronPc'[r] = "loop"
      /\ (last'.op = "cron_start" /\ last'.res = "store_error") =>
           UNCHANGED <<storeVars, cronVars>> ]_vars

\* An iteration whose UpdateSubscriptionAQI failed (the new index differs
\* from the stored one, which stayed), with a subscription left to process.
C20_Witness ==
  /\ last.op = "cron" /\ last.res = "store_error" /\ last.aqi >= 1
  /\ \A i \in DOMAIN subscription :
       subscription[i].ChatID = last.chat => subscription[i].AirQualityIndex # last.aqi
  /\ \E i \in DOMAIN subscription : subscription[i].ChatID = last.chat
  /\ \E r \in RunIds : cronPc[r] = "loop" /\ cronSnap[r] # <<>>

\* C21: at most one run of Cron is in progress at any time.
C21_OneRunAtATime ==
  Cardinality({ r \in RunIds : cronPc[r] = "loop" }) <= 1

\* C22: the location-share sequence is not atomic per chat.  A goroutine that
\* found the chat's reading stale and was answered by the provider appends
\* the reading it fetched, whatever other goroutines of the chat appended
\* since its staleness test; so two shares of a chat handled together both
\* refresh, both fetch and both append.
C22_ShareNotAtomic ==
  [][\A g \in GoIds :
       (goPc[g] = "fetch" /\ goPc'[g] = "reread")
         => /\ Len(data_point') = Len(data_point) + 1
            /\ data_point'[Len(data_point')] =
                 [chat_id |-> goUs[g].ChatID, Dt |-> now, Aqi |-> 1]]_vars

\* Both goroutines appended a reading of the same instant for the same chat.
C22_Witness ==
  /\ last.op = "location_added"
  /\ \E i, j \in DOMAIN data_point :
       /\ i < j
       /\ data_point[i].chat_id = data_point[j].chat_id
       /\ data_point[i].Dt = data_point[j].Dt

\* Shares handled one after the other never leave two readings of the same
\* instant for a chat while the provider answers with one reading.
C22_SequentialNoDouble ==
  \A i, j \in DOMAIN data_point :
    (i < j /\ data_point[i].chat_id = data_point[j].chat_id)
      => data_point[i].Dt # data_point[j].Dt

\* C23: with the janitor firing again and again and the store available,
\* every subscription that has been disabled is eventually deleted for good.
C23_GarbageCollected ==
  \A id \in 1..MaxSubs :
    (\E i \in DOMAIN subscription : subscription[i].ID = id /\ ~subscription[i].enabled)
      ~> (\A i \in DOMAIN subscription : subscription[i].ID # id)

\* C24: the life of a subscription is one-way.  A row is created enabled (by
\* a subscribe); a row that stays keeps its id, chat, language and location
\* and never goes from disabled to enabled; a row leaves the table only in a
\* run of the janitor and only if it was disabled.
C24_OneWayLifecycle ==
  [][/\ \A i \in DOMAIN subscription :
          LET stays == { j \in DOMAIN subscription' : subscription'[j].ID = subscription[i].ID } IN
          IF stays = {}
          THEN last'.op = "cron_cleanup" /\ ~subscription[i].enabled
          ELSE \A j \in stays :
                 /\ subscription'[j].ChatID = subscription[i].ChatID
                 /\ subscription'[j].LanguageCode = subscription[i].LanguageCode
                 /\ subscription'[j].Latitude = subscription[i].Latitude
                 /\ subscription'[j].Longitude = subscription[i].Longitude
                 /\ subscription'[j].enabled => subscription[i].enabled
     /\ \A j \in DOMAIN subscription' :
          (\A i \in DOMAIN subscription : subscription[i].ID # subscription'[j].ID)
            => subscription'[j].enabled /\ last'.op = "notifyMe"]_vars

\* Cron has just stored a new index in a row that an unsubscribe had disabled.
C24_Witness ==
  /\ last.op = "cron"
  /\ last.res \in {"improved", "degraded"}
  /\ \E i \in DOMAIN subscription :
       /\ subscription[i].ChatID = last.chat
       /\ ~subscription[i].enabled
       /\ subscription[i].AirQualityIndex = last.aqi

\* C25: in a run of Cron, whenever the provider has returned a reading for
\* the subscription's location, the index compared with the subscription's
\* stored index and reported is the index of that reading.
C25_IndexOfFetchedReading ==
  [][\A r \in RunIds, resp \in GoodResponses(now) :
       (/\ resp.DP # <<>>
        /\ CronStep(r, resp, 0)
        /\ last'.res \in {"same", "improved", "degraded"})
         => last'.aqi = resp.DP[1].Aqi]_vars

\* C26: the index shown after a location share, and the index a subscribe
\* stores, is the index of the location the chat shared last.
C26_IndexOfSharedLocation ==
  (last.res = "nil" /\ last.op \in {"location", "notifyMe"})
    => last.aqi = PlaceAqi(user_session[last.chat])

\* C27: a chat whose unsubscribe has completed and that has not subscribed
\* again is sent no change notification: Cron notifies a chat only while the
\* chat has an enabled subscription.
C27_NoNoticeAfterUnsubscribe ==
  (last.op = "cron" /\ last.res \in {"improved", "degraded"})
    => \E i \in DOMAIN subscription :
         subscription[i].ChatID = last.chat /\ subscription[i].enabled

\* C28: no index transition is notified twice.  An iteration of Cron notifies
\* only if the index it obtained differs from the index the subscription's
\* row holds, which is the index obtained when the subscription was last
\* processed (or created).
C28_NoTransitionTwice ==
  [][\A r \in RunIds :
       (/\ cronPc[r] = "loop"
        /\ cronSnap[r] # <<>>
        /\ cronSnap'[r] # cronSnap[r]
        /\ last'.res \in {"improved", "degraded"})
         => \A i \in DOMAIN subscription :
              subscription[i].ID = Head(cronSnap[r]).ID
                => subscription[i].AirQualityIndex # last'.aqi]_vars

\* C29: a store failure in the location-share handler stays with that event:
\* the process is still running after it, so that other events, Cron and
\* the janitor go on.
C29_StoreFailureIsolated ==
  (last.op = "location" /\ last.res = "panic") => alive
====
